---- MODULE Spec2Model ----
(***************************************************************************)
(* State Tracker (src/state_tracker.py) and Pattern Analyzer               *)
(* (src/pattern_analyzer.py) of the Proof-of-origin repository.            *)
(* Every StateTracker object holds state_data (None or a document) and     *)
(* shares one state file with the other trackers.  Each public method is   *)
(* one action.  Its parameters are the tracker p, the call's arguments a,  *)
(* how its read (rio) and its write (wio) of the file go, and r, what the  *)
(* call returns: "True", "False", or "raise" for an exception that reaches *)
(* the caller.  The times a call reads from the clock are chosen inside.   *)
(* A PatternAnalyzer object holds max_depth and patterns; each of its      *)
(* methods is one action whose parameters say which git runs fail, and     *)
(* returned holds what the call gave back.  The two entry points (main)    *)
(* are actions whose parameter code is the exit code of the process.       *)
(***************************************************************************)
EXTENDS Integers, Sequences, FiniteSets, TLC

VARIABLES
    state_data,   \* tracker -> self.state_data: None, or <<document>>
    file,         \* the state file: absent, partial (unparseable) or JSON text
    clock,        \* the time, as datetime.utcnow() returns it
    faults,       \* how many reads and writes of the file have failed so far
    max_depth,    \* PatternAnalyzer: self.max_depth
    patterns,     \* PatternAnalyzer: self.patterns
    repo,         \* the repository the analyzer inspects: what git and open() give
    returned      \* what the analyzer's last call returned: the method (op)
                  \* and the list of patterns or report lines (value); for
                  \* analyze_commit_patterns also the git log runs it made

tvars == <<state_data, file, clock, faults>>
avars == <<max_depth, patterns, repo, returned>>
vars == <<state_data, file, clock, faults, max_depth, patterns, repo, returned>>

----------------------------------------------------------------------------
(* Bounds of the model *)

MaxClock == 1
MaxEntries == 2
MaxFaults == 1

(* Inputs *)

TransitionArgs ==
    { [new_state |-> "active",      reason |-> "r"],
      [new_state |-> "initialized", reason |-> ""] }
EventArgs == {[event |-> <<"e">>, notes |-> "n", ethical_compliant |-> FALSE]}
PatternArgs == {[pattern_type |-> "t", description |-> "d", confidence |-> 1]}
DimensionArgs ==
    { [dimension |-> "temporal",    key |-> "k", value |-> "tuple:(1,)"],
      [dimension |-> "temporal",    key |-> "k", value |-> "set:{1}"],
      [dimension |-> "nonexistent", key |-> "k", value |-> "int:1"],
      [dimension |-> "custom",      key |-> "k", value |-> "int:1"] }
ReadOutcomes == {"ok", "read_fail"}
WriteOutcomes == {"ok", "open_fail", "write_fail"}
Results == {"True", "False", "raise"}

----------------------------------------------------------------------------
(* Values *)

None == <<>>
Some(d) == <<d>>

PredeclaredDimensions == {"temporal", "spatial", "conceptual", "relational", "ethical"}

DefaultMaxDepth == 5

create_initial_state(t) ==
    [ version |-> "1.0.0",
      stateHistory |-> <<>>,
      currentState |-> [ state |-> "initialized",
                         genaMode |-> TRUE,
                         activeCommitments |-> 5,
                         lastEvaluation |-> t,
                         ethicalStatus |-> "compliant",
                         evolutionaryStage |-> "genesis" ],
      patterns |-> [ emergent |-> <<>>,
                     recursive |-> [ depth |-> 0,
                                     maxDepth |-> DefaultMaxDepth,
                                     detectedPatterns |-> <<>> ] ],
      dimensions |-> [d \in PredeclaredDimensions |-> {}] ]

(* json.dump: what the written text encodes.  A tuple is written as an     *)
(* array, a set is refused with TypeError; the keys used are strings.      *)
(* A mapping is a set of <<key, value>> pairs.                             *)
json_value(v) == IF v = "tuple:(1,)" THEN "list:[1]" ELSE v
json_serializable_value(v) == v # "set:{1}"

json_mapping(m) == { <<kv[1], json_value(kv[2])>> : kv \in m }

json_serializable(sd) ==
    \/ sd = None
    \/ \A d \in DOMAIN sd[1].dimensions :
          \A kv \in sd[1].dimensions[d] : json_serializable_value(kv[2])

json_dump(sd) ==
    IF sd = None THEN None
    ELSE Some([sd[1] EXCEPT !.dimensions =
                  [d \in DOMAIN sd[1].dimensions |-> json_mapping(sd[1].dimensions[d])]])

json_load(text) == text

Absent == [kind |-> "absent", text |-> None]
Partial == [kind |-> "partial", text |-> None]
Json(text) == [kind |-> "json", text |-> text]

----------------------------------------------------------------------------
(* load_state *)

load_ok(f, rio) == f.kind = "absent" \/ (f.kind = "json" /\ rio = "ok")

(* Mutants of load_result: a default document is synthesized when the file *)
(* cannot be read; the file is ignored.                                    *)
load_result_default_on_error(sd, f, rio, t) ==
    IF f.kind = "absent" THEN Some(create_initial_state(t))
    ELSE IF f.kind = "json" /\ rio = "ok" THEN f.text
    ELSE Some(create_initial_state(t))

load_result_ignores_file(sd, f, rio, t) ==
    IF f.kind = "absent" \/ (f.kind = "json" /\ rio = "ok")
    THEN Some(create_initial_state(t))
    ELSE sd

load_result(sd, f, rio, t) ==
    IF f.kind = "absent" THEN Some(create_initial_state(t))
    ELSE IF f.kind = "json" /\ rio = "ok" THEN json_load(f.text)
    ELSE sd

(* Mutant of ensure_loaded: the file is read again before every mutation. *)
always_reload(sd, f, rio, t) == load_result(sd, f, rio, t)

(* if not self.state_data: self.load_state() *)
(* Mutant of ensure_loaded: a tracker without a document starts from the   *)
(* default document, whatever the file holds.                              *)
ensure_default(sd, f, rio, t) ==
    IF sd = None THEN Some(create_initial_state(t)) ELSE sd

ensure_loaded(sd, f, rio, t) ==
    IF sd = None THEN load_result(sd, f, rio, t) ELSE sd

(* save_state *)

(* Mutant of save_ok: the except branch returns True as well. *)
save_ok_always(sd, wio) == TRUE

save_ok(sd, wio) == wio = "ok" /\ json_serializable(sd)

(* Mutant of save_result: a write that succeeds leaves the file as it was. *)
save_result_not_written(sd, f, wio) ==
    IF wio = "open_fail" THEN f
    ELSE IF wio = "write_fail" \/ ~json_serializable(sd) THEN Partial
    ELSE f

save_result(sd, f, wio) ==
    IF wio = "open_fail" THEN f
    ELSE IF wio = "write_fail" \/ ~json_serializable(sd) THEN Partial
    ELSE Json(json_dump(sd))

(* The size of a document: its history entries, patterns and dimension keys. *)
RECURSIVE SumCard(_, _)
SumCard(f, S) ==
    IF S = {} THEN 0
    ELSE LET d == CHOOSE x \in S : TRUE
         IN  Cardinality(f[d]) + SumCard(f, S \ {d})

Size(doc) ==
    Len(doc.stateHistory) + Len(doc.patterns.emergent)
        + SumCard(doc.dimensions, DOMAIN doc.dimensions)

Bool(b) == IF b THEN "True" ELSE "False"

(* One more failed read or write of the file, within the fault budget. *)
Faulty(rio, wio) ==
    /\ faults' = faults + (IF rio = "ok" THEN 0 ELSE 1) + (IF wio = "ok" THEN 0 ELSE 1)
    /\ faults' <= MaxFaults

----------------------------------------------------------------------------
Times(from) == {t \in {from, from + 1} : t <= MaxClock}

(* The analyzer beside a tracker that is being exercised: constructed with *)
(* the default max_depth, nothing analysed yet.                            *)
DefaultAnalyzerDepth == 5

Returned(op, value) == [op |-> op, value |-> value]

AnalyzerIdle ==
    /\ max_depth = DefaultAnalyzerDepth
    /\ patterns = <<>>
    /\ repo = [ log |-> <<>>, files |-> <<>>,
                genesis |-> [g \in {"genesis.json", "GENESIS.md"} |-> "missing"] ]
    /\ returned = Returned("__init__", <<>>)

Init ==
    /\ state_data = [p \in {"p1"} |-> None]
    /\ file = Absent
    /\ clock = 0
    /\ faults = 0
    /\ AnalyzerIdle

construct(p) ==
    /\ state_data' = [state_data EXCEPT ![p] = None]
    /\ UNCHANGED <<file, clock, faults>>
    /\ UNCHANGED avars

(* Mutant of load_state: the default document is written to the file as    *)
(* soon as it is created.                                                  *)
load_state_materializes(p, rio, r) ==
    /\ UNCHANGED avars
    /\ file.kind = "absent" => rio = "ok"
    /\ Faulty(rio, "ok")
    /\ r = Bool(load_ok(file, rio))
    /\ \E t \in Times(clock) :
        /\ state_data' = [state_data EXCEPT ![p] = load_result(state_data[p], file, rio, t)]
        /\ clock' = t
        /\ file' = IF file.kind = "absent"
                   THEN Json(json_dump(Some(create_initial_state(t))))
                   ELSE file

load_state(p, rio, r) ==
    /\ UNCHANGED avars
    /\ file.kind = "absent" => rio = "ok"
    /\ Faulty(rio, "ok")
    /\ r = Bool(load_ok(file, rio))
    /\ \E t \in Times(clock) :
        /\ state_data' = [state_data EXCEPT ![p] = load_result(state_data[p], file, rio, t)]
        /\ clock' = t
    /\ UNCHANGED file

save_state(p, wio, r) ==
    /\ UNCHANGED avars
    /\ Faulty("ok", wio)
    /\ r = Bool(save_ok(state_data[p], wio))
    /\ file' = save_result(state_data[p], file, wio)
    /\ UNCHANGED <<state_data, clock>>

(* The tail shared by the mutating methods: the document is in memory and  *)
(* save_state writes it; its boolean is the method's result.               *)
Commit(p, doc, wio, r) ==
    /\ r = Bool(save_ok(Some(doc), wio))
    /\ state_data' = [state_data EXCEPT ![p] = Some(doc)]
    /\ file' = save_result(Some(doc), file, wio)

(* load_state failed and state_data is still None: subscripting None       *)
(* raises TypeError, which no handler catches.                             *)
Raise(wio, r) ==
    /\ wio = "ok"
    /\ r = "raise"
    /\ UNCHANGED <<state_data, file, clock>>

(* The method returns False without calling save_state. *)
Refuse(p, sd, wio, r) ==
    /\ wio = "ok"
    /\ r = "False"
    /\ state_data' = [state_data EXCEPT ![p] = sd]
    /\ UNCHANGED file

(* The implicit load reads the file only if state_data is None, and the    *)
(* clock only if it then creates the default document.                     *)
LoadInputs(p, rio, wio) ==
    /\ (state_data[p] # None \/ file.kind # "json") => rio = "ok"
    /\ Faulty(rio, wio)

LoadTimes(p) ==
    IF state_data[p] = None /\ file.kind = "absent" THEN Times(clock) ELSE {clock}

event_entry(doc, t, a) ==
    [ timestamp |-> t,
      state |-> doc.currentState.state,
      event |-> a.event,
      ethicalCompliance |-> a.ethical_compliant,
      notes |-> a.notes ]

(* Mutant of append_event: the entry is inserted at the head. *)
prepend_event(doc, t, a) ==
    [doc EXCEPT !.stateHistory = <<event_entry(doc, t, a)>> \o @,
                !.currentState.lastEvaluation = t]

(* Mutant of append_event: an event equal to the last one recorded is      *)
(* merged into it, only the timestamp being renewed.                       *)
append_unless_repeated(doc, t, a) ==
    LET h == doc.stateHistory
        e == event_entry(doc, t, a)
    IN  IF h # <<>> /\ [h[Len(h)] EXCEPT !.timestamp = t] = e
        THEN [doc EXCEPT !.stateHistory[Len(h)] = e,
                         !.currentState.lastEvaluation = t]
        ELSE [doc EXCEPT !.stateHistory = Append(@, e),
                         !.currentState.lastEvaluation = t]

append_event(doc, t, a) ==
    [doc EXCEPT !.stateHistory = Append(@, event_entry(doc, t, a)),
                !.currentState.lastEvaluation = t]

add_state_event(p, a, rio, wio, r) ==
    /\ UNCHANGED avars
    /\ LoadInputs(p, rio, wio)
    /\ \E t1 \in LoadTimes(p) :
        LET sd == ensure_loaded(state_data[p], file, rio, t1)
        IN  IF sd = None
            THEN Raise(wio, r)
            ELSE /\ Size(sd[1]) < MaxEntries
                 /\ \E t2 \in Times(t1) :
                     /\ clock' = t2
                     /\ Commit(p, append_event(sd[1], t2, a), wio, r)

set_state(doc, new_state) == [doc EXCEPT !.currentState.state = new_state]

transition_event(old_state, new_state, reason) ==
    <<"State transition: ", old_state, " -> ", new_state>>
        \o (IF reason # "" THEN <<" (", reason, ")">> ELSE <<>>)

(* Mutant of transition: the event is recorded before the state is set. *)
transition_records_first(doc, t, new_state, reason) ==
    set_state(append_event(doc, t,
                  [ event |-> transition_event(doc.currentState.state, new_state, reason),
                    notes |-> "",
                    ethical_compliant |-> TRUE ]),
              new_state)

transition(doc, t, new_state, reason) ==
    append_event(set_state(doc, new_state), t,
                 [ event |-> transition_event(doc.currentState.state, new_state, reason),
                   notes |-> "",
                   ethical_compliant |-> TRUE ])

update_state(p, a, rio, wio, r) ==
    /\ UNCHANGED avars
    /\ LoadInputs(p, rio, wio)
    /\ \E t1 \in LoadTimes(p) :
        LET sd == ensure_loaded(state_data[p], file, rio, t1)
        IN  IF sd = None
            THEN Raise(wio, r)
            ELSE /\ Size(sd[1]) < MaxEntries
                 /\ \E t2 \in Times(t1) :
                     /\ clock' = t2
                     /\ Commit(p, transition(sd[1], t2, a.new_state, a.reason), wio, r)

(* Mutant of pattern_entry: the entry is stamped with the depth ceiling     *)
(* instead of the depth reached.                                           *)
pattern_entry_at_ceiling(doc, t, a) ==
    [ timestamp |-> t,
      type |-> a.pattern_type,
      description |-> a.description,
      confidence |-> a.confidence,
      recursiveDepth |-> doc.patterns.recursive.maxDepth ]

pattern_entry(doc, t, a) ==
    [ timestamp |-> t,
      type |-> a.pattern_type,
      description |-> a.description,
      confidence |-> a.confidence,
      recursiveDepth |-> doc.patterns.recursive.depth ]

(* Mutant of append_pattern: the detection also renews lastEvaluation. *)
append_pattern_stamps_evaluation(doc, t, a) ==
    [doc EXCEPT !.patterns.emergent = Append(@, pattern_entry(doc, t, a)),
                !.currentState.lastEvaluation = t]

(* Mutant of append_pattern: the entry is inserted at the head. *)
prepend_pattern(doc, t, a) ==
    [doc EXCEPT !.patterns.emergent = <<pattern_entry(doc, t, a)>> \o @]

append_pattern(doc, t, a) ==
    [doc EXCEPT !.patterns.emergent = Append(@, pattern_entry(doc, t, a))]

detect_pattern(p, a, rio, wio, r) ==
    /\ UNCHANGED avars
    /\ LoadInputs(p, rio, wio)
    /\ \E t1 \in LoadTimes(p) :
        LET sd == ensure_loaded(state_data[p], file, rio, t1)
        IN  IF sd = None
            THEN Raise(wio, r)
            ELSE /\ Size(sd[1]) < MaxEntries
                 /\ \E t2 \in Times(t1) :
                     /\ clock' = t2
                     /\ Commit(p, append_pattern(sd[1], t2, a), wio, r)

(* Mutants of below_max_depth: the comparison admits the ceiling itself;   *)
(* the comparison stops one short of the ceiling.                          *)
at_most_max_depth(doc) ==
    doc.patterns.recursive.depth <= doc.patterns.recursive.maxDepth

below_last_depth(doc) ==
    doc.patterns.recursive.depth < doc.patterns.recursive.maxDepth - 1

below_max_depth(doc) ==
    doc.patterns.recursive.depth < doc.patterns.recursive.maxDepth

deeper(doc) ==
    [doc EXCEPT !.patterns.recursive.depth = doc.patterns.recursive.depth + 1]

increase_recursive_depth(p, rio, wio, r) ==
    /\ UNCHANGED avars
    /\ LoadInputs(p, rio, wio)
    /\ \E t1 \in LoadTimes(p) :
        LET sd == ensure_loaded(state_data[p], file, rio, t1)
        IN  IF sd = None
            THEN Raise(wio, r)
            ELSE /\ clock' = t1
                 /\ IF below_max_depth(sd[1])
                    THEN Commit(p, deeper(sd[1]), wio, r)
                    ELSE Refuse(p, sd, wio, r)

has_dimension(doc, dimension) == dimension \in DOMAIN doc.dimensions

upsert(m, key, value) == {kv \in m : kv[1] # key} \cup {<<key, value>>}

set_dimension(doc, a) ==
    [doc EXCEPT !.dimensions[a.dimension] = upsert(@, a.key, a.value)]

update_dimension(p, a, rio, wio, r) ==
    /\ UNCHANGED avars
    /\ LoadInputs(p, rio, wio)
    /\ \E t1 \in LoadTimes(p) :
        LET sd == ensure_loaded(state_data[p], file, rio, t1)
        IN  IF sd = None
            THEN Raise(wio, r)
            ELSE /\ clock' = t1
                 /\ IF has_dimension(sd[1], a.dimension)
                    THEN /\ Size(set_dimension(sd[1], a)) <= MaxEntries
                         /\ Commit(p, set_dimension(sd[1], a), wio, r)
                    ELSE Refuse(p, sd, wio, r)

----------------------------------------------------------------------------
(* main of state_tracker.py: a tracker of its own is constructed and        *)
(* loaded; the summary is printed if load_state returns True, otherwise    *)
(* the process ends with exit(1).  get_state_summary subscripts the        *)
(* document: when the file holds null, that raises TypeError, which ends   *)
(* the process with exit code 1 as well.                                   *)
ExitCodes == {0, 1}

main_exit_code(f, rio) ==
    IF load_ok(f, rio) /\ load_result(None, f, rio, clock) # None THEN 0 ELSE 1

tracker_main(rio, code) ==
    /\ UNCHANGED avars
    /\ file.kind = "absent" => rio = "ok"
    /\ Faulty(rio, "ok")
    /\ code = main_exit_code(file, rio)
    /\ clock' \in (IF file.kind = "absent" THEN Times(clock) ELSE {clock})
    /\ UNCHANGED <<state_data, file>>

----------------------------------------------------------------------------
(***************************************************************************)
(* Pattern Analyzer (src/pattern_analyzer.py).                             *)
(* Text is a sequence of tokens in which every separator ("\n", "|", " ",  *)
(* "/", ".") is a token of its own; the other tokens are pieces of text    *)
(* without separators.  The string a token sequence stands for is the      *)
(* concatenation of its tokens.  Confidences are counted in tenths.        *)
(***************************************************************************)

RECURSIVE Concat(_)
Concat(ts) == IF ts = <<>> THEN "" ELSE ts[1] \o Concat(Tail(ts))

RECURSIVE join(_, _)
join(sep, strs) ==
    IF strs = <<>> THEN ""
    ELSE IF Len(strs) = 1 THEN strs[1]
    ELSE strs[1] \o sep \o join(sep, Tail(strs))

(* str.split(sep): the pieces between the separators, empty ones kept. *)
split(ts, sep) ==
    LET cuts == {0} \cup {i \in 1..Len(ts) : ts[i] = sep} \cup {Len(ts) + 1}
        cut(k) == CHOOSE c \in cuts : Cardinality({d \in cuts : d < c}) = k - 1
    IN  [k \in 1..(Cardinality(cuts) - 1) |->
            SubSeq(ts, cut(k) + 1, cut(k + 1) - 1)]

Whitespace == {" ", "\n"}

(* str.strip(): leading and trailing whitespace removed. *)
RECURSIVE lstrip(_)
lstrip(ts) ==
    IF ts # <<>> /\ ts[1] \in Whitespace THEN lstrip(Tail(ts)) ELSE ts

RECURSIVE rstrip(_)
rstrip(ts) ==
    IF ts # <<>> /\ ts[Len(ts)] \in Whitespace
    THEN rstrip(SubSeq(ts, 1, Len(ts) - 1))
    ELSE ts

strip(ts) == rstrip(lstrip(ts))

(* str.split() without argument: the maximal pieces free of whitespace;    *)
(* each is returned as the string it stands for.                           *)
RECURSIVE unspace(_)
unspace(ts) ==
    IF ts = <<>> THEN <<>>
    ELSE <<IF ts[1] = "\n" THEN " " ELSE ts[1]>> \o unspace(Tail(ts))

RECURSIVE strings(_)
strings(pieces) ==
    IF pieces = <<>> THEN <<>>
    ELSE (IF pieces[1] = <<>> THEN <<>> ELSE <<Concat(pieces[1])>>)
             \o strings(Tail(pieces))

words(ts) == strings(split(unspace(ts), " "))

(* str.lower(), token by token. *)
LowerCase == [NOW |-> "now", Feature |-> "feature", Refine |-> "refine"]

RECURSIVE lower(_)
lower(ts) ==
    IF ts = <<>> THEN <<>>
    ELSE <<IF ts[1] \in DOMAIN LowerCase THEN LowerCase[ts[1]] ELSE ts[1]>>
             \o lower(Tail(ts))

(* int(text): the texts it accepts here are the decimal numerals 0 .. 9,   *)
(* whitespace around them allowed; any other text raises ValueError.       *)
is_int(ts) == \E n \in 0..9 : Concat(strip(ts)) = ToString(n)
int(ts) == CHOOSE n \in 0..9 : Concat(strip(ts)) = ToString(n)

(* analyze_commit_patterns: parsing the output of git log, one line        *)
(* "hash|author|email|timestamp|subject" per commit.                       *)
commit_record(parts) ==
    [ hash |-> Concat(parts[1]),
      author |-> Concat(parts[2]),
      email |-> Concat(parts[3]),
      timestamp |-> int(parts[4]),
      message |-> parts[5] ]

(* The commits of the lines, or ok = FALSE when int() raises ValueError. *)
RECURSIVE parse_lines(_)
parse_lines(lines) ==
    IF lines = <<>> THEN [ok |-> TRUE, commits |-> <<>>]
    ELSE LET parts == split(lines[1], "|")
             rest == parse_lines(Tail(lines))
         IN  IF lines[1] = <<>> \/ Len(parts) < 5 THEN rest
             ELSE IF ~is_int(parts[4]) \/ ~rest.ok
                  THEN [ok |-> FALSE, commits |-> <<>>]
                  ELSE [ok |-> TRUE,
                        commits |-> <<commit_record(parts)>> \o rest.commits]

parse_commits(stdout) == parse_lines(split(strip(stdout), "\n"))

(* Mutant of long_words: words of 3 characters are counted as well. *)
long_words_from_3(ws) == SelectSeq(ws, LAMBDA w : Len(w) >= 3)

(* The words of a message that are counted: len(word) > 3. *)
long_words(ws) == SelectSeq(ws, LAMBDA w : Len(w) > 3)

RECURSIVE message_words(_)
message_words(commits) ==
    IF commits = <<>> THEN <<>>
    ELSE long_words(words(lower(commits[1].message)))
             \o message_words(Tail(commits))

(* The keys of message_keywords in insertion order, and their counts. *)
RECURSIVE first_seen(_)
first_seen(ws) ==
    IF ws = <<>> THEN <<>>
    ELSE LET before == first_seen(SubSeq(ws, 1, Len(ws) - 1))
             w == ws[Len(ws)]
         IN  IF \E i \in 1..Len(before) : before[i] = w
             THEN before
             ELSE Append(before, w)

occurrences(w, ws) == Cardinality({i \in 1..Len(ws) : ws[i] = w})

(* sorted(items, key = count, reverse = True): descending counts, equal    *)
(* counts in the order they had (the sort is stable).                      *)
RECURSIVE sorted_by_count(_, _)
sorted_by_count(keys, ws) ==
    IF keys = <<>> THEN <<>>
    ELSE LET best == CHOOSE i \in 1..Len(keys) :
                        /\ \A j \in 1..Len(keys) :
                              occurrences(keys[j], ws) <= occurrences(keys[i], ws)
                        /\ \A j \in 1..(i - 1) :
                              occurrences(keys[j], ws) < occurrences(keys[i], ws)
         IN  <<keys[best]>>
                 \o sorted_by_count(SubSeq(keys, 1, best - 1)
                                        \o SubSeq(keys, best + 1, Len(keys)), ws)

(* Mutant of top_keywords: the first five keys, not sorted by count. *)
top_keywords_first_seen(ws) ==
    LET s == first_seen(ws)
    IN  SubSeq(s, 1, IF Len(s) < 5 THEN Len(s) ELSE 5)

top_keywords(ws) ==
    LET s == sorted_by_count(first_seen(ws), ws)
    IN  SubSeq(s, 1, IF Len(s) < 5 THEN Len(s) ELSE 5)

authors(commits) == {commits[i].author : i \in 1..Len(commits)}

(* The patterns one depth level derives from the commits. *)
commit_level_patterns(commits, depth) ==
    (IF Len(commits) > 1
     THEN << [ type |-> "commit_frequency",
               description |-> "Repository has " \o ToString(Len(commits)) \o " commits",
               depth |-> depth,
               confidence |-> 10 ] >>
     ELSE <<>>)
    \o (IF Cardinality(authors(commits)) > 0
        THEN << [ type |-> "author_diversity",
                  description |-> ToString(Cardinality(authors(commits)))
                                      \o " unique author(s) detected",
                  depth |-> depth,
                  confidence |-> 10 ] >>
        ELSE <<>>)
    \o (IF message_words(commits) # <<>>
        THEN << [ type |-> "message_patterns",
                  description |-> "Top keywords: "
                                      \o join(", ", top_keywords(message_words(commits))),
                  depth |-> depth,
                  confidence |-> 8 ] >>
        ELSE <<>>)

(* git[d] is what the git log run at depth d gives: ok = FALSE when        *)
(* subprocess.run raises (git missing, non-zero exit), else its stdout.    *)
(* Mutant of analyze_commit_patterns: the recursion stops one level later  *)
(* (depth > max_depth, depth < max_depth).                                 *)
RECURSIVE analyze_commit_patterns_to_max(_, _, _)
analyze_commit_patterns_to_max(depth, m, git) ==
    IF depth > m THEN <<>>
    ELSE IF ~git[depth].ok THEN <<>>
    ELSE LET parsed == parse_commits(git[depth].stdout)
         IN  IF ~parsed.ok THEN <<>>
             ELSE commit_level_patterns(parsed.commits, depth)
                      \o (IF depth < m
                          THEN analyze_commit_patterns_to_max(depth + 1, m, git)
                          ELSE <<>>)

(* Mutant of analyze_commit_patterns: a level does not descend. *)
analyze_commit_patterns_one_level(depth, m, git) ==
    IF depth >= m THEN <<>>
    ELSE IF ~git[depth].ok THEN <<>>
    ELSE LET parsed == parse_commits(git[depth].stdout)
         IN  IF ~parsed.ok THEN <<>>
             ELSE commit_level_patterns(parsed.commits, depth)

RECURSIVE analyze_commit_patterns(_, _, _)
analyze_commit_patterns(depth, m, git) ==
    IF depth >= m THEN <<>>
    ELSE IF ~git[depth].ok THEN <<>>
    ELSE LET parsed == parse_commits(git[depth].stdout)
         IN  IF ~parsed.ok THEN <<>>
             ELSE commit_level_patterns(parsed.commits, depth)
                      \o (IF depth < m - 1
                          THEN analyze_commit_patterns(depth + 1, m, git)
                          ELSE <<>>)

(* How many times the call tree of analyze_commit_patterns(depth) runs     *)
(* git log: once per level entered, none at a level refused by the depth   *)
(* guard; a level whose run or whose parsing raises does not descend.      *)
RECURSIVE git_log_runs(_, _, _)
git_log_runs(depth, m, git) ==
    IF depth >= m THEN 0
    ELSE IF ~git[depth].ok THEN 1
    ELSE IF ~parse_commits(git[depth].stdout).ok THEN 1
    ELSE 1 + (IF depth < m - 1 THEN git_log_runs(depth + 1, m, git) ELSE 0)

(* analyze_file_patterns: the output of git ls-files, one path per line. *)
listed(stdout) == SelectSeq(split(strip(stdout), "\n"), LAMBDA l : l # <<>>)

contains(ts, sep) == \E i \in 1..Len(ts) : ts[i] = sep

(* file.split('.')[-1] *)
extension(path) == LET ps == split(path, ".") IN Concat(ps[Len(ps)])

(* file.rsplit('/', 1)[0] *)
directory(path) ==
    LET last == CHOOSE i \in 1..Len(path) :
                    path[i] = "/" /\ \A j \in (i + 1)..Len(path) : path[j] # "/"
    IN  Concat(SubSeq(path, 1, last - 1))

RECURSIVE extensions(_)
extensions(files) ==
    IF files = <<>> THEN <<>>
    ELSE (IF contains(files[1], ".") THEN <<extension(files[1])>> ELSE <<>>)
             \o extensions(Tail(files))

directories(files) ==
    {directory(files[i]) : i \in {j \in 1..Len(files) : contains(files[j], "/")}}

(* repr(dict(file_types)): the keys in insertion order with their counts. *)
RECURSIVE dict_items(_, _)
dict_items(keys, all) ==
    IF keys = <<>> THEN <<>>
    ELSE <<"'" \o keys[1] \o "': " \o ToString(occurrences(keys[1], all))>>
             \o dict_items(Tail(keys), all)

dict_repr(all) == "{" \o join(", ", dict_items(first_seen(all), all)) \o "}"

file_level_patterns(files, depth) ==
    (IF extensions(files) # <<>>
     THEN << [ type |-> "file_types",
               description |-> "File types: " \o dict_repr(extensions(files)),
               depth |-> depth,
               confidence |-> 10 ] >>
     ELSE <<>>)
    \o (IF directories(files) # {}
        THEN << [ type |-> "directory_structure",
                  description |-> ToString(Cardinality(directories(files)))
                                      \o " directories detected",
                  depth |-> depth,
                  confidence |-> 10 ] >>
        ELSE <<>>)

(* ls is what git ls-files gives: ok = FALSE when subprocess.run raises. *)
analyze_file_patterns(depth, m, ls) ==
    IF depth >= m THEN <<>>
    ELSE IF ~ls.ok THEN <<>>
    ELSE file_level_patterns(listed(ls.stdout), depth)

(* analyze_ethical_patterns.  md is what git ls-files *.md gives; opened    *)
(* tells for each genesis file how open() ends: "ok", "missing"            *)
(* (FileNotFoundError, passed over) or "error" (any other exception, which *)
(* leaves the loop for the outer handler).                                 *)
GenesisFiles == <<"genesis.json", "GENESIS.md">>

RECURSIVE framework_patterns(_, _)
framework_patterns(gfiles, opened) ==
    IF gfiles = <<>> \/ opened[gfiles[1]] = "error" THEN <<>>
    ELSE (IF opened[gfiles[1]] = "ok"
          THEN << [ type |-> "ethical_framework",
                    description |-> "Genesis framework file found: " \o gfiles[1],
                    depth |-> 0,
                    confidence |-> 10 ] >>
          ELSE <<>>)
             \o framework_patterns(Tail(gfiles), opened)

documentation_patterns(docs) ==
    IF docs # <<>>
    THEN << [ type |-> "ethical_documentation",
              description |-> "Documentation files present: " \o ToString(Len(docs)),
              depth |-> 0,
              confidence |-> 9 ] >>
    ELSE <<>>

(* analyze_ethical_patterns: the list is created before the try block and *)
(* returned after it, so an exception keeps what was appended before it.   *)
analyze_ethical_patterns(md, opened) ==
    IF ~md.ok THEN <<>>
    ELSE documentation_patterns(listed(md.stdout))
             \o framework_patterns(GenesisFiles, opened)

(* analyze_all: the three families in order. *)
analyze_all(m, git, ls, md, opened) ==
    analyze_commit_patterns(0, m, git)
        \o analyze_file_patterns(0, m, ls)
        \o analyze_ethical_patterns(md, opened)

(* generate_report.  A line of the report is the sequence of the pieces    *)
(* its f-string is made of; "* " stands for the bullet character.          *)
TypeOrder ==
    << "author_diversity", "commit_frequency", "directory_structure",
       "ethical_documentation", "ethical_framework", "file_types",
       "message_patterns" >>

(* ptype.upper().replace('_', ' ') *)
title ==
    [ author_diversity |-> "AUTHOR DIVERSITY",
      commit_frequency |-> "COMMIT FREQUENCY",
      directory_structure |-> "DIRECTORY STRUCTURE",
      ethical_documentation |-> "ETHICAL DOCUMENTATION",
      ethical_framework |-> "ETHICAL FRAMEWORK",
      file_types |-> "FILE TYPES",
      message_patterns |-> "MESSAGE PATTERNS" ]

RECURSIVE types_of(_)
types_of(ps) ==
    IF ps = <<>> THEN <<>> ELSE <<ps[1].type>> \o types_of(Tail(ps))

(* Mutant of sorted_types: the groups come in the order in which their     *)
(* types were first emitted.                                               *)
emitted_types(ps) == first_seen(types_of(ps))

(* The keys of patterns_by_type as sorted() orders them. *)
sorted_types(ps) ==
    SelectSeq(TypeOrder, LAMBDA ty : \E i \in 1..Len(ps) : ps[i].type = ty)

RECURSIVE indent(_)
indent(depth) == IF depth <= 0 THEN <<>> ELSE <<"  ">> \o indent(depth - 1)

pattern_line(pattern) ==
    indent(pattern.depth)
        \o << "* ", pattern.description,
              " (confidence: ", ToString(pattern.confidence * 10),
              "%, depth: ", ToString(pattern.depth), ")" >>

RECURSIVE pattern_lines(_)
pattern_lines(ps) ==
    IF ps = <<>> THEN <<>>
    ELSE <<pattern_line(ps[1])>> \o pattern_lines(Tail(ps))

RECURSIVE group_lines(_, _)
group_lines(types, ps) ==
    IF types = <<>> THEN <<>>
    ELSE << <<"\n", title[types[1]], ":">> >>
             \o pattern_lines(SelectSeq(ps, LAMBDA q : q.type = types[1]))
             \o group_lines(Tail(types), ps)

RECURSIVE repeat(_, _)
repeat(c, n) ==
    IF n <= 0 THEN ""
    ELSE LET half == repeat(c, n \div 2)
         IN  half \o half \o (IF n % 2 = 1 THEN c ELSE "")

Rule(c) == <<repeat(c, 70)>>

generate_report(m, ps, t) ==
    << Rule("="),
       <<"RECURSIVE PATTERN ANALYSIS REPORT">>,
       Rule("="),
       <<"Timestamp: ", ToString(t)>>,
       <<"Max Recursive Depth: ", ToString(m)>>,
       <<"Patterns Detected: ", ToString(Len(ps))>>,
       <<>>,
       <<"DETECTED PATTERNS">>,
       Rule("-") >>
        \o group_lines(sorted_types(ps), ps)
        \o << <<>>, Rule("=") >>

(* The repositories the analyzer is run on.  A history is the stdout of    *)
(* git log --all --format=%H|%an|%ae|%at|%s, a file list that of           *)
(* git ls-files.                                                           *)
LogLine(hash, author, email, at, subject) ==
    <<hash, "|", author, "|", email, "|", at, "|">> \o subject \o <<"\n">>

EmptyHistory == <<>>

ScenarioHistory ==
    LogLine("h4", "ann", "ann@x", "4", <<"fix", " ", "bug", " ", "now">>)
        \o LogLine("h3", "bob", "bob@x", "3", <<"add", " ", "feature", " ", "now">>)
        \o LogLine("h2", "ann", "ann@x", "2", <<"now", " ", "refine", " ", "logic">>)
        \o LogLine("h1", "bob", "bob@x", "1", <<"now", " ", "cleanup">>)

(* Upper case in the subjects, a repeated long word, one author. *)
MixedCaseHistory ==
    LogLine("h3", "ann", "ann@x", "3", <<"NOW", " ", "Refine", " ", "logic">>)
        \o LogLine("h2", "ann", "ann@x", "2", <<"refine", " ", "Feature">>)
        \o LogLine("h1", "ann", "ann@x", "1", <<"fix", " ", "bug">>)

(* One commit whose subject has no word longer than 3 characters. *)
ShortHistory == LogLine("h1", "ann", "ann@x", "1", <<"fix", " ", "bug">>)

(* A line of three fields between two well-formed lines, one of which has  *)
(* a "|" in its subject.                                                   *)
MalformedHistory ==
    LogLine("h3", "ann", "ann@x", "3", <<"cleanup", "|", "tests">>)
        \o <<"h2", "|", "bob", "|", "bob@x", "\n">>
        \o LogLine("h1", "bob", "bob@x", "1", <<"feature">>)

(* An author name with a "|" in it: the fourth field is not a number. *)
PipeAuthorHistory ==
    LogLine("h2", "ann", "ann@x", "2", <<"feature">>)
        \o <<"h1", "|", "b", "|", "ob", "|", "bob@x", "|", "1", "|", "cleanup", "\n">>

(* Six distinct long words, two of them seen twice and neither of these   *)
(* seen first.                                                             *)
LongHistory ==
    LogLine("h3", "ann", "ann@x", "3", <<"alpha", " ", "beta", " ", "gamma">>)
        \o LogLine("h2", "bob", "bob@x", "2", <<"delta", " ", "epsilon", " ", "zeta">>)
        \o LogLine("h1", "ann", "ann@x", "1", <<"zeta", " ", "beta">>)

NoFiles == <<>>

SomeFiles ==
    << "README", ".", "md", "\n",
       "Makefile", "\n",
       "src", "/", "a", ".", "py", "\n",
       "src", "/", "b", ".", "py", "\n",
       "docs", "/", "guide", ".", "md", "\n" >>

GenesisNames == {"genesis.json", "GENESIS.md"}

Repo(log, files, genesis) == [log |-> log, files |-> files, genesis |-> genesis]

Repos ==
    { Repo(ScenarioHistory, SomeFiles, [g \in GenesisNames |-> "ok"]),
      Repo(EmptyHistory, NoFiles, [g \in GenesisNames |-> "missing"]),
      Repo(MixedCaseHistory, SomeFiles,
           [g \in GenesisNames |-> IF g = "genesis.json" THEN "error" ELSE "ok"]),
      Repo(ShortHistory, NoFiles, [g \in GenesisNames |-> "ok"]),
      Repo(MalformedHistory, SomeFiles,
           [g \in GenesisNames |-> IF g = "genesis.json" THEN "ok" ELSE "error"]),
      Repo(PipeAuthorHistory, SomeFiles, [g \in GenesisNames |-> "missing"]),
      Repo(LongHistory, NoFiles, [g \in GenesisNames |-> "missing"]) }

MaxAnalyzerDepth == 2

(* What the git runs and the open() calls of one analysis give. *)
Run(ok, stdout) == [ok |-> ok, stdout |-> stdout]

Failures == 0..MaxAnalyzerDepth

Depths ==
    0..(IF MaxAnalyzerDepth > DefaultAnalyzerDepth
        THEN MaxAnalyzerDepth ELSE DefaultAnalyzerDepth)

git_log(fail) == [d \in Depths |-> Run(d # fail, repo.log)]

git_ls_files(ok) == Run(ok, repo.files)

(* git ls-files *.md: the tracked paths that end in ".md". *)
is_markdown(path) ==
    Len(path) >= 2 /\ path[Len(path) - 1] = "." /\ path[Len(path)] = "md"

RECURSIVE unlines(_)
unlines(lines) ==
    IF lines = <<>> THEN <<>> ELSE lines[1] \o <<"\n">> \o unlines(Tail(lines))

git_ls_markdown(ok) ==
    Run(ok, unlines(SelectSeq(listed(repo.files), is_markdown)))

(* The methods of a PatternAnalyzer object, each call one action.  fail   *)
(* is the depth at which the git log run fails (MaxAnalyzerDepth: none     *)
(* does; the runs below a failed one are never made), ls_ok and md_ok say  *)
(* whether the two git ls-files runs succeed.                              *)
analyzer_init(m) ==
    /\ max_depth' = m
    /\ patterns' = <<>>
    /\ returned' = Returned("__init__", <<>>)
    /\ UNCHANGED repo
    /\ UNCHANGED tvars

run_analyze_commit_patterns(fail) ==
    /\ returned' = [ op |-> "analyze_commit_patterns",
                     value |-> analyze_commit_patterns(0, max_depth, git_log(fail)),
                     runs |-> git_log_runs(0, max_depth, git_log(fail)) ]
    /\ UNCHANGED <<max_depth, patterns, repo>>
    /\ UNCHANGED tvars

run_analyze_file_patterns(depth, ls_ok) ==
    /\ returned' = Returned("analyze_file_patterns",
                            analyze_file_patterns(depth, max_depth, git_ls_files(ls_ok)))
    /\ UNCHANGED <<max_depth, patterns, repo>>
    /\ UNCHANGED tvars

run_analyze_ethical_patterns(md_ok) ==
    /\ returned' = Returned("analyze_ethical_patterns",
                            analyze_ethical_patterns(git_ls_markdown(md_ok), repo.genesis))
    /\ UNCHANGED <<max_depth, patterns, repo>>
    /\ UNCHANGED tvars

run_analyze_all(fail, ls_ok, md_ok) ==
    /\ patterns' = analyze_all(max_depth, git_log(fail), git_ls_files(ls_ok),
                               git_ls_markdown(md_ok), repo.genesis)
    /\ returned' = Returned("analyze_all", patterns')
    /\ UNCHANGED <<max_depth, repo>>
    /\ UNCHANGED tvars

run_generate_report ==
    /\ returned' = Returned("generate_report",
                            generate_report(max_depth, patterns, clock))
    /\ UNCHANGED <<max_depth, patterns, repo>>
    /\ UNCHANGED tvars

(* main of pattern_analyzer.py: an analyzer of its own with the default    *)
(* max_depth runs analyze_all and prints the report.                       *)
analyzer_main(fail, ls_ok, md_ok, code) ==
    /\ code = 0
    /\ returned' = Returned("main",
           generate_report(DefaultAnalyzerDepth,
                           analyze_all(DefaultAnalyzerDepth, git_log(fail),
                                       git_ls_files(ls_ok), git_ls_markdown(md_ok),
                                       repo.genesis),
                           clock))
    /\ UNCHANGED <<max_depth, patterns, repo>>
    /\ UNCHANGED tvars

TrackerIdle ==
    /\ state_data = [p \in {"p1"} |-> None]
    /\ file = Absent
    /\ clock = 0
    /\ faults = 0

InitAnalyzer ==
    /\ TrackerIdle
    /\ max_depth \in 0..MaxAnalyzerDepth
    /\ patterns = <<>>
    /\ repo \in Repos
    /\ returned = Returned("__init__", <<>>)

NextAnalyzer ==
    \/ \E m \in 0..MaxAnalyzerDepth : analyzer_init(m)
    \/ \E fail \in Failures : run_analyze_commit_patterns(fail)
    \/ \E depth \in 0..MaxAnalyzerDepth, ls_ok \in BOOLEAN :
           run_analyze_file_patterns(depth, ls_ok)
    \/ \E md_ok \in BOOLEAN : run_analyze_ethical_patterns(md_ok)
    \/ \E fail \in Failures, ls_ok \in BOOLEAN, md_ok \in BOOLEAN :
           run_analyze_all(fail, ls_ok, md_ok)
    \/ run_generate_report
    \/ \E fail \in Failures, ls_ok \in BOOLEAN, md_ok \in BOOLEAN, code \in ExitCodes :
           analyzer_main(fail, ls_ok, md_ok, code)

SpecAnalyzer == InitAnalyzer /\ [][NextAnalyzer]_vars

Next ==
    \/ \E p \in DOMAIN state_data : construct(p)
    \/ \E p \in DOMAIN state_data, rio \in ReadOutcomes, r \in Results :
           load_state(p, rio, r)
    \/ \E p \in DOMAIN state_data, wio \in WriteOutcomes, r \in Results :
           save_state(p, wio, r)
    \/ \E p \in DOMAIN state_data, a \in EventArgs, rio \in ReadOutcomes,
          wio \in WriteOutcomes, r \in Results :
           add_state_event(p, a, rio, wio, r)
    \/ \E p \in DOMAIN state_data, a \in TransitionArgs, rio \in ReadOutcomes,
          wio \in WriteOutcomes, r \in Results :
           update_state(p, a, rio, wio, r)
    \/ \E p \in DOMAIN state_data, a \in PatternArgs, rio \in ReadOutcomes,
          wio \in WriteOutcomes, r \in Results :
           detect_pattern(p, a, rio, wio, r)
    \/ \E p \in DOMAIN state_data, rio \in ReadOutcomes,
          wio \in WriteOutcomes, r \in Results :
           increase_recursive_depth(p, rio, wio, r)
    \/ \E p \in DOMAIN state_data, a \in DimensionArgs, rio \in ReadOutcomes,
          wio \in WriteOutcomes, r \in Results :
           update_dimension(p, a, rio, wio, r)
    \/ \E rio \in ReadOutcomes, code \in ExitCodes : tracker_main(rio, code)

Spec == Init /\ [][Next]_vars

(* Two tracker processes on one state file.  The file holds the document   *)
(* that a tracker wrote after raising the depth to one below the ceiling.  *)
DeepDocument ==
    [create_initial_state(0) EXCEPT
        !.patterns.recursive.depth = DefaultMaxDepth - 1]

Init2 ==
    /\ state_data = [p \in {"p1", "p2"} |-> None]
    /\ file = Json(json_dump(Some(DeepDocument)))
    /\ clock = MaxClock
    /\ faults = MaxFaults
    /\ AnalyzerIdle

Spec2 == Init2 /\ [][Next]_vars

(* One tracker started on a state file that already exists: a document     *)
(* with a sixth dimension key, as a later version or an editor writes it.  *)
ExtendedDocument ==
    [create_initial_state(0) EXCEPT !.dimensions =
        [d \in PredeclaredDimensions \cup {"custom"} |-> {}]]

InitFile ==
    /\ state_data = [p \in {"p1"} |-> None]
    /\ file = Json(Some(ExtendedDocument))
    /\ clock = 0
    /\ faults = 0
    /\ AnalyzerIdle

SpecFile == InitFile /\ [][Next]_vars
----------------------------------------------------------------------------
(* Vocabulary of the properties *)

Trackers == DOMAIN state_data
Doc(p) == state_data[p][1]
MutatingOps == {"add_state_event", "update_state", "detect_pattern",
                "increase_recursive_depth", "update_dimension"}
IsPrefix(s, t) == Len(s) <= Len(t) /\ SubSeq(t, 1, Len(s)) = s
Depth(doc) == doc.patterns.recursive.depth
IsDefault(doc) == \E t \in 0..MaxClock : doc = create_initial_state(t)

(* The document a call of tracker p works on when its implicit load does   *)
(* not fail: the one in memory, else the file's, else the default one.     *)
PreDoc(p) ==
    IF state_data[p] # None THEN Doc(p)
    ELSE IF file.kind = "json" THEN file.text[1]
    ELSE create_initial_state(clock)

(* The arguments a method can be called with. *)
Args(op) ==
    CASE op = "add_state_event" -> EventArgs
      [] op = "update_state" -> TransitionArgs
      [] op = "detect_pattern" -> PatternArgs
      [] op = "update_dimension" -> DimensionArgs
      [] OTHER -> {<<>>}

(* The step is a call of method op by tracker p with arguments a, whose    *)
(* read and write of the file went as rio and wio, and whose result is r.  *)
Call(p, op, a, rio, wio, r) ==
    CASE op = "load_state" -> wio = "ok" /\ load_state(p, rio, r)
      [] op = "save_state" -> rio = "ok" /\ save_state(p, wio, r)
      [] op = "add_state_event" -> add_state_event(p, a, rio, wio, r)
      [] op = "update_state" -> update_state(p, a, rio, wio, r)
      [] op = "detect_pattern" -> detect_pattern(p, a, rio, wio, r)
      [] op = "increase_recursive_depth" -> increase_recursive_depth(p, rio, wio, r)
      [] op = "update_dimension" -> update_dimension(p, a, rio, wio, r)

(* The methods that read or write the file. *)
Ops == MutatingOps \cup {"load_state", "save_state"}
----------------------------------------------------------------------------
(* C1 (as stated): every update_state call that returns makes stateHistory *)
(* exactly one entry longer, and the appended entry's state is the value   *)
(* currentState.state had before the call.                                 *)
C1_EntryHasOldState ==
    [][\A p \in Trackers, a \in TransitionArgs, rio \in ReadOutcomes,
          wio \in WriteOutcomes, r \in {"True", "False"} :
        Call(p, "update_state", a, rio, wio, r) =>
            LET h == Doc(p).stateHistory' IN
            /\ Len(h) = Len(PreDoc(p).stateHistory) + 1
            /\ h[Len(h)].state = PreDoc(p).currentState.state]_vars

(* C1 (amended): every update_state call that returns makes stateHistory   *)
(* exactly one entry longer, and the appended entry's state is new_state,  *)
(* the value currentState.state has after the call.                        *)
C1_EntryHasNewState ==
    [][\A p \in Trackers, a \in TransitionArgs, rio \in ReadOutcomes,
          wio \in WriteOutcomes, r \in {"True", "False"} :
        Call(p, "update_state", a, rio, wio, r) =>
            LET h == Doc(p).stateHistory' IN
            /\ Len(h) = Len(PreDoc(p).stateHistory) + 1
            /\ SubSeq(h, 1, Len(h) - 1) = PreDoc(p).stateHistory
            /\ h[Len(h)].state = a.new_state
            /\ h[Len(h)].state = Doc(p).currentState.state']_vars

(* An update_state call has returned after changing the state: the entry   *)
(* it appended names a transition between two different states.            *)
C1_Witness ==
    \E p \in Trackers :
        /\ state_data[p] # None
        /\ Doc(p).stateHistory # <<>>
        /\ LET h == Doc(p).stateHistory IN
           /\ Len(h[Len(h)].event) >= 4
           /\ h[Len(h)].event[1] = "State transition: "
           /\ h[Len(h)].event[2] = "initialized"
           /\ h[Len(h)].event[4] = "active"
           /\ h[Len(h)].state = "active"

----------------------------------------------------------------------------
(* C2: a document in memory or in the file never has depth above maxDepth, *)
(* and an increase_recursive_depth call made at depth = maxDepth returns   *)
(* False and leaves the document and the file as they are.                 *)
DepthWithinMax(sd) ==
    sd # None => Depth(sd[1]) <= sd[1].patterns.recursive.maxDepth

C2_DepthNeverExceedsMax ==
    /\ [](/\ \A p \in Trackers : DepthWithinMax(state_data[p])
          /\ file.kind = "json" => DepthWithinMax(file.text))
    /\ [][\A p \in Trackers, rio \in ReadOutcomes, wio \in WriteOutcomes,
             r \in {"True", "False"} :
            ( /\ Call(p, "increase_recursive_depth", <<>>, rio, wio, r)
              /\ Depth(PreDoc(p)) = PreDoc(p).patterns.recursive.maxDepth ) =>
                /\ r = "False"
                /\ file' = file
                /\ state_data'[p] = Some(PreDoc(p))
                /\ state_data[p] # None => state_data' = state_data]_vars

(* The depth has been raised to the ceiling and written; the call made now *)
(* is refused.                                                             *)
C2_Witness ==
    \E p \in Trackers :
        /\ state_data[p] # None
        /\ Depth(Doc(p)) = Doc(p).patterns.recursive.maxDepth
        /\ file = Json(json_dump(state_data[p]))
        /\ ENABLED increase_recursive_depth(p, "ok", "ok", "False")

----------------------------------------------------------------------------
(* C3: counted from depth 0, the k-th increase_recursive_depth call finds  *)
(* depth k - 1.  Each call that finds depth < maxDepth raises the depth by *)
(* one and returns True (its write succeeding), the call that finds        *)
(* depth = maxDepth returns False and the depth stays maxDepth; so of      *)
(* maxDepth + 1 calls in a row exactly the first maxDepth succeed.         *)
C3_IncreaseSucceedsBelowMax ==
    [][\A p \in Trackers, rio \in ReadOutcomes, wio \in WriteOutcomes,
          r \in {"True", "False"} :
        Call(p, "increase_recursive_depth", <<>>, rio, wio, r) =>
            LET d == Depth(PreDoc(p))
                m == PreDoc(p).patterns.recursive.maxDepth
            IN  /\ d < m => Depth(Doc(p))' = d + 1
                /\ d = m => Depth(Doc(p))' = m /\ r = "False"
                /\ (d < m /\ wio = "ok" /\ json_serializable(state_data'[p]))
                       => r = "True"
                /\ r = "True" => d < m]_vars

(* DefaultMaxDepth calls in a row, from the default document and without   *)
(* any failed file operation, have succeeded: the depth counts them, and   *)
(* the next call cannot return True.                                       *)
C3_Witness ==
    \E p \in Trackers :
        /\ faults = 0
        /\ state_data[p] # None
        /\ Doc(p) = [create_initial_state(Doc(p).currentState.lastEvaluation)
                        EXCEPT !.patterns.recursive.depth = DefaultMaxDepth]
        /\ file.kind = "json"
        /\ Depth(file.text[1]) = DefaultMaxDepth
        /\ ~ ENABLED increase_recursive_depth(p, "ok", "ok", "True")

----------------------------------------------------------------------------
(* C4 (as stated): an update_dimension call that names a dimension other   *)
(* than the five predeclared ones returns False, leaves the dimensions     *)
(* unchanged and does not write the file.                                  *)
C4_OnlyPredeclaredDimensions ==
    [][\A p \in Trackers, a \in DimensionArgs, rio \in ReadOutcomes,
          wio \in WriteOutcomes, r \in {"True", "False"} :
        ( /\ Call(p, "update_dimension", a, rio, wio, r)
          /\ a.dimension \notin PredeclaredDimensions ) =>
            /\ r = "False"
            /\ file' = file
            /\ Doc(p).dimensions' = PreDoc(p).dimensions]_vars

----------------------------------------------------------------------------
(* C5 (as stated): across every step of every tracker operation, load_state *)
(* included, the stateHistory and the patterns.emergent of the document in *)
(* memory before the step are prefixes of those after it.                  *)
Extends(old, new) ==
    /\ IsPrefix(old.stateHistory, new.stateHistory)
    /\ IsPrefix(old.patterns.emergent, new.patterns.emergent)

C5_AppendOnly ==
    [][\A p \in Trackers, op \in Ops, rio \in ReadOutcomes,
          wio \in WriteOutcomes, r \in Results :
        \A a \in Args(op) :
            (state_data[p] # None /\ Call(p, op, a, rio, wio, r)) =>
                /\ state_data'[p] # None
                /\ Extends(Doc(p), Doc(p)')]_vars

(* C5 (amended): across every step of save_state, add_state_event,         *)
(* update_state, detect_pattern, increase_recursive_depth and              *)
(* update_dimension, failed saves included, the two sequences of the       *)
(* document in memory are only extended, by at most one entry; load_state  *)
(* replaces them by the sequences of the file (empty ones if it is absent).*)
C5_AppendOnlyExceptLoad ==
    [][\A p \in Trackers, op \in Ops, rio \in ReadOutcomes,
          wio \in WriteOutcomes, r \in Results :
        \A a \in Args(op) :
            /\ ( /\ state_data[p] # None
                 /\ op # "load_state"
                 /\ Call(p, op, a, rio, wio, r) ) =>
                    /\ state_data'[p] # None
                    /\ Extends(Doc(p), Doc(p)')
                    /\ Len(Doc(p).stateHistory') + Len(Doc(p).patterns.emergent')
                          <= Len(Doc(p).stateHistory) + Len(Doc(p).patterns.emergent) + 1
            /\ ( /\ op = "load_state"
                 /\ Call(p, op, a, rio, wio, r)
                 /\ r = "True"
                 /\ state_data'[p] # None ) =>
                    /\ file.kind = "json" => state_data'[p] = file.text
                    /\ file.kind = "absent" =>
                          /\ Doc(p).stateHistory' = <<>>
                          /\ Doc(p).patterns.emergent' = <<>>]_vars

(* An entry was appended behind an earlier one, the save of it failing:    *)
(* memory has both entries in the order of the calls, the file the first.  *)
C5_Witness ==
    \E p \in Trackers :
        /\ state_data[p] # None
        /\ Len(Doc(p).stateHistory) = 2
        /\ file.kind = "json"
        /\ file.text # None
        /\ file.text[1].stateHistory = SubSeq(Doc(p).stateHistory, 1, 1)
        /\ faults > 0

----------------------------------------------------------------------------
(* C6: with two trackers on one file, a mutating call that succeeds on a   *)
(* tracker holding a document leaves the file holding exactly that         *)
(* tracker's document, which is its own earlier copy plus the call's       *)
(* change: what the other tracker wrote since is gone, and the call        *)
(* reports success.                                                        *)
OwnChangeOnly(op, a, old, new) ==
    /\ Extends(old, new)
    /\ Len(new.stateHistory) <= Len(old.stateHistory) + 1
    /\ Len(new.patterns.emergent) <= Len(old.patterns.emergent) + 1
    /\ Depth(new) \in {Depth(old), Depth(old) + 1}
    /\ DOMAIN new.dimensions = DOMAIN old.dimensions
    /\ \A d \in DOMAIN new.dimensions :
          \/ new.dimensions[d] = old.dimensions[d]
          \/ /\ op = "update_dimension"
             /\ d = a.dimension
             /\ new.dimensions[d] = upsert(old.dimensions[d], a.key, a.value)

C6_LastWriteWins ==
    [][\A p \in Trackers, op \in MutatingOps :
        \A a \in Args(op) :
            (state_data[p] # None /\ Call(p, op, a, "ok", "ok", "True")) =>
                /\ file' = Json(json_dump(state_data'[p]))
                /\ OwnChangeOnly(op, a, Doc(p), Doc(p)')]_vars

(* Both trackers have written successfully; the file is the later writer's *)
(* document and lacks the history entry the earlier writer had saved.      *)
C6_Witness ==
    /\ Cardinality(Trackers) = 2
    /\ \E p, q \in Trackers :
        /\ p # q
        /\ state_data[p] # None /\ state_data[q] # None
        /\ Len(Doc(p).stateHistory) = 1
        /\ Doc(q).stateHistory = <<>>
        /\ Len(Doc(q).patterns.emergent) = 1
        /\ file = Json(json_dump(state_data[q]))
        /\ file.text[1].stateHistory = <<>>

----------------------------------------------------------------------------
(* C7: a mutating call whose write of the file fails returns False, not an *)
(* exception, and the document in memory holds the attempted change.       *)
Writes(op, a, doc) ==
    \/ op \in {"add_state_event", "update_state", "detect_pattern"}
    \/ op = "increase_recursive_depth" /\ below_max_depth(doc)
    \/ op = "update_dimension" /\ has_dimension(doc, a.dimension)

HoldsChange(op, a, old, new) ==
    CASE op \in {"add_state_event", "update_state"} ->
            /\ Len(new.stateHistory) = Len(old.stateHistory) + 1
            /\ op = "update_state" => new.currentState.state = a.new_state
      [] op = "detect_pattern" ->
            Len(new.patterns.emergent) = Len(old.patterns.emergent) + 1
      [] op = "increase_recursive_depth" ->
            Depth(new) = Depth(old) + 1
      [] op = "update_dimension" ->
            <<a.key, a.value>> \in new.dimensions[a.dimension]

C7_FailedWriteReturnsFalse ==
    [][\A p \in Trackers, op \in MutatingOps, wio \in WriteOutcomes,
          r \in Results :
        \A a \in Args(op) :
            ( /\ Call(p, op, a, "ok", wio, r)
              /\ state_data'[p] # None
              /\ Writes(op, a, PreDoc(p))
              /\ wio # "ok" \/ ~json_serializable(state_data'[p]) ) =>
                /\ r = "False"
                /\ HoldsChange(op, a, PreDoc(p), Doc(p)')]_vars

(* A transition whose write failed: the new state and its entry are in     *)
(* memory while the file still has the old state.                          *)
C7_Witness ==
    \E p \in Trackers :
        /\ faults = 1
        /\ state_data[p] # None
        /\ Doc(p).currentState.state = "active"
        /\ Doc(p).stateHistory # <<>>
        /\ Doc(p).stateHistory[Len(Doc(p).stateHistory)].state = "active"
        /\ file.kind = "json"
        /\ file.text # None
        /\ file.text[1].currentState.state = "initialized"

----------------------------------------------------------------------------
(* C8 (as stated): a save_state that fails, alone or as the last step of a *)
(* mutating call, leaves the state file as it was: absent, or holding the  *)
(* last complete document written.                                         *)
C8_FailedSaveKeepsFile ==
    [][\A p \in Trackers, op \in MutatingOps \cup {"save_state"},
          rio \in ReadOutcomes, wio \in WriteOutcomes :
        \A a \in Args(op) :
            Call(p, op, a, rio, wio, "False") => file' = file]_vars

----------------------------------------------------------------------------
(* C9: load_state on a file that exists and cannot be read or parsed       *)
(* returns False, leaves state_data as it was (no default document) and    *)
(* leaves the file; a mutating call on a tracker without a document then   *)
(* raises and writes nothing.                                              *)
Unreadable(rio) ==
    file.kind = "partial" \/ (file.kind = "json" /\ rio = "read_fail")

C9_UnreadableFileIsHardFailure ==
    [][\A p \in Trackers, op \in MutatingOps \cup {"load_state"},
          rio \in ReadOutcomes, wio \in WriteOutcomes, r \in Results :
        \A a \in Args(op) :
            ( /\ Unreadable(rio)
              /\ op # "load_state" => state_data[p] = None
              /\ Call(p, op, a, rio, wio, r) ) =>
                /\ r = (IF op = "load_state" THEN "False" ELSE "raise")
                /\ state_data' = state_data
                /\ file' = file]_vars

(* A tracker without a document beside an unparseable file: load_state has *)
(* returned False, and the mutating call made now raises.                  *)
C9_Witness ==
    \E p \in Trackers :
        /\ state_data[p] = None
        /\ file.kind = "partial"
        /\ ENABLED load_state(p, "ok", "False")
        /\ \A a \in TransitionArgs :
              ENABLED update_state(p, a, "ok", "ok", "raise")

----------------------------------------------------------------------------
(* C10: after load_state on an absent file and save_state, a second        *)
(* load_state gives the document the first one gave.                       *)
C10_DefaultRoundTrip ==
    [][\A p \in Trackers, rio \in ReadOutcomes, r \in Results :
        ( /\ state_data[p] # None
          /\ IsDefault(Doc(p))
          /\ file = Json(json_dump(state_data[p]))
          /\ Call(p, "load_state", <<>>, rio, "ok", r) ) =>
            /\ state_data'[p] = state_data[p]
            /\ rio = "ok" => r = "True"]_vars

(* The default document was created, saved and loaded again after the      *)
(* clock had moved on from its creation.                                   *)
C10_Witness ==
    \E p \in Trackers :
        /\ file.kind = "json"
        /\ state_data[p] # None
        /\ IsDefault(Doc(p))
        /\ file.text = state_data[p]
        /\ Doc(p).currentState.lastEvaluation < clock

----------------------------------------------------------------------------
(* C11: load_state on an absent state file returns True with the default   *)
(* document in memory (state "initialized", stateHistory and               *)
(* patterns.emergent empty, exactly the five dimensions, each an empty     *)
(* mapping) and leaves the file absent; a step that creates the file is a  *)
(* save_state or a mutating call.                                          *)
IsInitialDocument(doc) ==
    /\ doc.currentState.state = "initialized"
    /\ doc.stateHistory = <<>>
    /\ doc.patterns.emergent = <<>>
    /\ DOMAIN doc.dimensions =
          {"temporal", "spatial", "conceptual", "relational", "ethical"}
    /\ \A d \in DOMAIN doc.dimensions : doc.dimensions[d] = {}

C11_DefaultLoadLeavesFileAbsent ==
    [][/\ \A p \in Trackers, rio \in ReadOutcomes, r \in Results :
            (file.kind = "absent" /\ Call(p, "load_state", <<>>, rio, "ok", r)) =>
                /\ r = "True"
                /\ state_data'[p] # None
                /\ IsInitialDocument(Doc(p)')
                /\ file' = Absent
       /\ (file.kind = "absent" /\ file'.kind # "absent") =>
            \E p \in Trackers, op \in MutatingOps \cup {"save_state"},
               wio \in WriteOutcomes, r \in Results :
                \E a \in Args(op) : Call(p, op, a, "ok", wio, r)]_vars

(* load_state has given a tracker the default document, created after the  *)
(* clock had moved, and no file exists.                                    *)
C11_Witness ==
    \E p \in Trackers :
        /\ file = Absent
        /\ state_data[p] # None
        /\ IsInitialDocument(Doc(p))
        /\ Doc(p) = create_initial_state(1)
        /\ faults = 0

----------------------------------------------------------------------------
(* C12: a mutating call on a tracker without a document, made while the    *)
(* file holds a document D, and returning True, leaves the file holding D  *)
(* with only that call's change applied (as JSON encodes it): every other  *)
(* field has the value it has in D, none is reset to its default.          *)
OnlyChange(op, a, old, new) ==
    /\ new.version = old.version
    /\ new.currentState.genaMode = old.currentState.genaMode
    /\ new.currentState.activeCommitments = old.currentState.activeCommitments
    /\ new.currentState.ethicalStatus = old.currentState.ethicalStatus
    /\ new.currentState.evolutionaryStage = old.currentState.evolutionaryStage
    /\ new.currentState.state =
          (IF op = "update_state" THEN a.new_state ELSE old.currentState.state)
    /\ IF op \in {"add_state_event", "update_state"}
       THEN /\ Len(new.stateHistory) = Len(old.stateHistory) + 1
            /\ IsPrefix(old.stateHistory, new.stateHistory)
            /\ new.currentState.lastEvaluation =
                  new.stateHistory[Len(new.stateHistory)].timestamp
       ELSE /\ new.stateHistory = old.stateHistory
            /\ new.currentState.lastEvaluation = old.currentState.lastEvaluation
    /\ IF op = "detect_pattern"
       THEN /\ Len(new.patterns.emergent) = Len(old.patterns.emergent) + 1
            /\ IsPrefix(old.patterns.emergent, new.patterns.emergent)
       ELSE new.patterns.emergent = old.patterns.emergent
    /\ new.patterns.recursive.maxDepth = old.patterns.recursive.maxDepth
    /\ new.patterns.recursive.detectedPatterns = old.patterns.recursive.detectedPatterns
    /\ Depth(new) = Depth(old) + (IF op = "increase_recursive_depth" THEN 1 ELSE 0)
    /\ DOMAIN new.dimensions = DOMAIN old.dimensions
    /\ \A d \in DOMAIN new.dimensions :
          new.dimensions[d] =
              IF op = "update_dimension" /\ d = a.dimension
              THEN upsert(old.dimensions[d], a.key, json_value(a.value))
              ELSE old.dimensions[d]

C12_FirstMutationLoadsFile ==
    [][\A p \in Trackers, op \in MutatingOps :
        \A a \in Args(op) :
            ( /\ state_data[p] = None
              /\ file.kind = "json"
              /\ file.text # None
              /\ Call(p, op, a, "ok", "ok", "True") ) =>
                /\ file'.kind = "json"
                /\ file'.text # None
                /\ OnlyChange(op, a, file.text[1], file'.text[1])]_vars

(* A tracker without a document beside a file whose document is not the    *)
(* default one (an entry in the history, depth raised, state changed): the *)
(* mutating calls made now succeed.                                        *)
C12_Witness ==
    \E p \in Trackers :
        /\ state_data[p] = None
        /\ file.kind = "json"
        /\ file.text # None
        /\ Len(file.text[1].stateHistory) = 1
        /\ file.text[1].currentState.state = "active"
        /\ Depth(file.text[1]) > 0
        /\ \A a \in TransitionArgs : ENABLED update_state(p, a, "ok", "ok", "True")
        /\ ENABLED increase_recursive_depth(p, "ok", "ok", "True")

----------------------------------------------------------------------------
(* C13: every add_state_event call that returns appends exactly one entry  *)
(* to stateHistory, whatever the entries before it are (no coalescing);    *)
(* the entry's state is currentState.state as the call found it, its       *)
(* event, notes and ethicalCompliance are the call's arguments;            *)
(* currentState.lastEvaluation becomes the entry's timestamp; and the      *)
(* document so changed is what the call writes to the file: it returns     *)
(* True exactly if that write succeeds, and the file then holds it.        *)
C13_EventAppendsOneEntry ==
    [][\A p \in Trackers, a \in EventArgs, rio \in ReadOutcomes,
          wio \in WriteOutcomes, r \in {"True", "False"} :
        Call(p, "add_state_event", a, rio, wio, r) =>
            LET old == PreDoc(p)
                new == Doc(p)'
                h == new.stateHistory
            IN  /\ h = Append(old.stateHistory, h[Len(h)])
                /\ h[Len(h)].state = old.currentState.state
                /\ h[Len(h)].event = a.event
                /\ h[Len(h)].notes = a.notes
                /\ h[Len(h)].ethicalCompliance = a.ethical_compliant
                /\ h[Len(h)].timestamp \in clock..clock'
                /\ new.currentState = [old.currentState EXCEPT
                                          !.lastEvaluation = h[Len(h)].timestamp]
                /\ new.patterns = old.patterns
                /\ new.dimensions = old.dimensions
                /\ r = "True" <=> (wio = "ok" /\ json_serializable(state_data'[p]))
                /\ r = "True" => file' = Json(json_dump(state_data'[p]))]_vars

(* Two add_state_event calls with the same arguments, made at the same     *)
(* time and in the same state, have left two equal entries, both written.  *)
C13_Witness ==
    \E p \in Trackers :
        /\ state_data[p] # None
        /\ Len(Doc(p).stateHistory) = 2
        /\ Doc(p).stateHistory[1] = Doc(p).stateHistory[2]
        /\ Doc(p).stateHistory[2].event = <<"e">>
        /\ Doc(p).currentState.lastEvaluation = Doc(p).stateHistory[2].timestamp
        /\ file = Json(json_dump(state_data[p]))

----------------------------------------------------------------------------
(* C14: every detect_pattern call that returns appends exactly one entry   *)
(* to patterns.emergent; its recursiveDepth is patterns.recursive.depth of *)
(* the document as the call found it, its type, description and confidence *)
(* are the call's arguments, and nothing else of the document changes.     *)
C14_PatternStampedWithDepth ==
    [][\A p \in Trackers, a \in PatternArgs, rio \in ReadOutcomes,
          wio \in WriteOutcomes, r \in {"True", "False"} :
        Call(p, "detect_pattern", a, rio, wio, r) =>
            LET old == PreDoc(p)
                new == Doc(p)'
                e == new.patterns.emergent
            IN  /\ e = Append(old.patterns.emergent, e[Len(e)])
                /\ e[Len(e)].recursiveDepth = Depth(old)
                /\ e[Len(e)].type = a.pattern_type
                /\ e[Len(e)].description = a.description
                /\ e[Len(e)].confidence = a.confidence
                /\ e[Len(e)].timestamp \in clock..clock'
                /\ new.patterns.recursive = old.patterns.recursive
                /\ new.stateHistory = old.stateHistory
                /\ new.dimensions = old.dimensions]_vars

(* Patterns were detected before and after the depth was raised: each      *)
(* entry keeps the depth of its own call.                                  *)
C14_Witness ==
    \E p \in Trackers :
        /\ state_data[p] # None
        /\ Len(Doc(p).patterns.emergent) = 2
        /\ Doc(p).patterns.emergent[1].recursiveDepth = 0
        /\ Doc(p).patterns.emergent[2].recursiveDepth = 2
        /\ Depth(Doc(p)) = 2


----------------------------------------------------------------------------
(* C15: the tracker entry point and the analyzer entry point always end    *)
(* with exit code 0, whatever fails inside them: in every reachable state, *)
(* every run of either main that is possible there ends with code 0.       *)
C15_MainsExitZero ==
    \A code \in ExitCodes :
        /\ \A rio \in ReadOutcomes :
              ENABLED tracker_main(rio, code) => code = 0
        /\ \A fail \in Failures, ls_ok \in BOOLEAN, md_ok \in BOOLEAN :
              ENABLED analyzer_main(fail, ls_ok, md_ok, code) => code = 0


----------------------------------------------------------------------------
(* C16: every pattern record an analysis returns has a depth below the     *)
(* analyzer's max_depth; the records of analyze_file_patterns carry the    *)
(* depth that was requested, and those of analyze_ethical_patterns carry   *)
(* depth 0 (the depth analyze_all requests), which never exceeds           *)
(* max_depth.                                                              *)
EthicalTypes == {"ethical_documentation", "ethical_framework"}

C16_DepthBelowMaxDepth ==
    [][LET ps == returned'.value
       IN  /\ (/\ returned'.op = "analyze_commit_patterns"
               /\ \E fail \in Failures : run_analyze_commit_patterns(fail))
                  => \A i \in DOMAIN ps : ps[i].depth < max_depth
           /\ \A depth \in 0..MaxAnalyzerDepth, ls_ok \in BOOLEAN :
                 (/\ returned'.op = "analyze_file_patterns"
                  /\ run_analyze_file_patterns(depth, ls_ok))
                     => \A i \in DOMAIN ps :
                           ps[i].depth = depth /\ ps[i].depth < max_depth
           /\ (/\ returned'.op = "analyze_ethical_patterns"
               /\ \E md_ok \in BOOLEAN : run_analyze_ethical_patterns(md_ok))
                  => \A i \in DOMAIN ps :
                        ps[i].depth = 0 /\ ps[i].depth <= max_depth
           /\ (/\ returned'.op = "analyze_all"
               /\ \E fail \in Failures, ls_ok \in BOOLEAN, md_ok \in BOOLEAN :
                     run_analyze_all(fail, ls_ok, md_ok))
                  => \A i \in DOMAIN ps :
                        IF ps[i].type \in EthicalTypes
                        THEN ps[i].depth = 0 /\ ps[i].depth <= max_depth
                        ELSE ps[i].depth < max_depth
      ]_vars

(* The deepest level is reached: a commit pattern of depth max_depth - 1,  *)
(* with max_depth at its bound.                                            *)
C16_Witness ==
    /\ returned.op = "analyze_commit_patterns"
    /\ max_depth = MaxAnalyzerDepth
    /\ \E i \in DOMAIN returned.value : returned.value[i].depth = max_depth - 1


----------------------------------------------------------------------------
(* C17: a failure inside an analysis family makes that family contribute   *)
(* an empty sequence, and analyze_all returns the patterns of the          *)
(* remaining families: what analyze_all returns is the concatenation of    *)
(* the three families' patterns, with <<>> for each family in which a git  *)
(* run or an open() failed.                                                *)
CommitFamilyFails(fail) == fail < max_depth

FileFamilyFails(ls_ok) == ~ls_ok

EthicalFamilyFails(md_ok) ==
    \/ ~md_ok
    \/ \E g \in DOMAIN repo.genesis : repo.genesis[g] = "error"

C17_FailedFamilyContributesNothing ==
    [][\A fail \in Failures, ls_ok \in BOOLEAN, md_ok \in BOOLEAN :
          (returned'.op = "analyze_all" /\ run_analyze_all(fail, ls_ok, md_ok))
             => returned'.value =
                   (IF CommitFamilyFails(fail) THEN <<>>
                    ELSE analyze_commit_patterns(0, max_depth, git_log(fail)))
                   \o (IF FileFamilyFails(ls_ok) THEN <<>>
                       ELSE analyze_file_patterns(0, max_depth, git_ls_files(ls_ok)))
                   \o (IF EthicalFamilyFails(md_ok) THEN <<>>
                       ELSE analyze_ethical_patterns(git_ls_markdown(md_ok),
                                                     repo.genesis))
      ]_vars


----------------------------------------------------------------------------
(* The scenario: the history of 4 commits by 2 authors, max_depth = 2 and  *)
(* every git log run succeeding.                                           *)
ScenarioCall ==
    /\ repo.log = ScenarioHistory
    /\ max_depth = 2
    /\ returned'.op = "analyze_commit_patterns"
    /\ \E fail \in Failures : fail >= max_depth /\ run_analyze_commit_patterns(fail)

ScenarioWords ==
    {"fix", "bug", "now", "add", "feature", "refine", "logic", "cleanup"}

(* The keyword lists a description can show: up to five words. *)
KeywordLists(first) ==
    { <<first>> \o tl : tl \in UNION { [1..n -> ScenarioWords] : n \in 0..4 } }

HasTopKeyword(description, w) ==
    \E ks \in KeywordLists(w) : description = "Top keywords: " \o join(", ", ks)

Observations(ps, from, depth) ==
    /\ ps[from].type = "commit_frequency"
    /\ ps[from].description = "Repository has 4 commits"
    /\ ps[from + 1].type = "author_diversity"
    /\ ps[from + 1].description = "2 unique author(s) detected"
    /\ ps[from + 2].type = "message_patterns"
    /\ \A k \in 0..2 : ps[from + k].depth = depth

(* C18: in the scenario analyze_commit_patterns returns the frequency, the *)
(* author and the keyword observation at depth 0 and again at depth 1,     *)
(* and the first keyword of the keyword observation is "now".              *)
C18_ScenarioTopKeywordNow ==
    [][ScenarioCall =>
          LET ps == returned'.value
          IN  /\ Len(ps) = 6
              /\ Observations(ps, 1, 0)
              /\ Observations(ps, 4, 1)
              /\ HasTopKeyword(ps[3].description, "now")
              /\ HasTopKeyword(ps[6].description, "now")
      ]_vars

(* C18, amended: "now" has 3 characters and is not counted; the keyword    *)
(* observation lists the four longer words, each seen once, in the order   *)
(* in which the history shows them.                                        *)
C18_ScenarioKeywordsLongerThan3 ==
    [][ScenarioCall =>
          LET ps == returned'.value
          IN  /\ Len(ps) = 6
              /\ Observations(ps, 1, 0)
              /\ Observations(ps, 4, 1)
              /\ ps[3].description = "Top keywords: feature, refine, logic, cleanup"
              /\ ps[6].description = ps[3].description
              /\ \A w \in ScenarioWords :
                    HasTopKeyword(ps[3].description, w) => Len(w) > 3
      ]_vars

C18_Witness ==
    /\ repo.log = ScenarioHistory
    /\ max_depth = 2
    /\ returned.op = "analyze_commit_patterns"
    /\ Len(returned.value) = 6


----------------------------------------------------------------------------
(* What a report shows: its pattern lines are the lines with a bullet; a   *)
(* pattern line shows its indentation (the units before the bullet) and    *)
(* the description after the bullet.                                       *)
Bullet(line) == CHOOSE i \in DOMAIN line : line[i] = "* "

IsPatternLine(line) == \E i \in DOMAIN line : line[i] = "* "

Shown(line) ==
    [ indent |-> SubSeq(line, 1, Bullet(line) - 1),
      description |-> line[Bullet(line) + 1] ]

RECURSIVE Units(_)
Units(n) == IF n = 0 THEN <<>> ELSE Append(Units(n - 1), "  ")

(* The patterns grouped by type, the types in lexicographic order, each    *)
(* group in emission order.                                                *)
RECURSIVE Grouped(_, _)
Grouped(types, ps) ==
    IF types = <<>> THEN <<>>
    ELSE SelectSeq(ps, LAMBDA q : q.type = types[1]) \o Grouped(Tail(types), ps)

(* C19: the report lists every pattern exactly once, grouped by type with  *)
(* the groups in lexicographic order of type and each group in emission    *)
(* order, each line indented by depth units; the number of pattern lines   *)
(* is the printed "Patterns Detected" count.                               *)
C19_ReportListsEveryPatternOnce ==
    returned.op = "generate_report" =>
        LET lines == SelectSeq(returned.value, IsPatternLine)
            expected == Grouped(TypeOrder, patterns)
        IN  /\ Len(lines) = Len(patterns)
            /\ \E i \in DOMAIN returned.value :
                  returned.value[i] = <<"Patterns Detected: ", ToString(Len(lines))>>
            /\ Len(expected) = Len(patterns)
            /\ \A i \in DOMAIN lines :
                  /\ Shown(lines[i]).indent = Units(expected[i].depth)
                  /\ Shown(lines[i]).description = expected[i].description

(* A report of patterns of several types, emitted in an order that is not  *)
(* the lexicographic one, with two patterns of one type at different       *)
(* depths.                                                                 *)
C19_Witness ==
    /\ returned.op = "generate_report"
    /\ Len(patterns) >= 4
    /\ patterns[1].type # TypeOrder[1]
    /\ \E i, j \in DOMAIN patterns :
          /\ i < j
          /\ patterns[i].type = patterns[j].type
          /\ patterns[i].depth < patterns[j].depth


----------------------------------------------------------------------------
(* C20: every document the tracker persists has the top-level keys         *)
(* currentState, stateHistory, patterns and dimensions, with               *)
(* currentState.genaMode true and currentState.activeCommitments 5.        *)
TopLevelKeys == {"currentState", "stateHistory", "patterns", "dimensions"}

IsWellFormed(text) ==
    /\ text # None
    /\ TopLevelKeys \subseteq DOMAIN text[1]
    /\ text[1].currentState.genaMode = TRUE
    /\ text[1].currentState.activeCommitments = 5

C20_PersistedDocumentKeepsShape ==
    file.kind = "json" => IsWellFormed(file.text)


----------------------------------------------------------------------------
(* The observations of depth d in a pattern sequence, without their depth. *)
Observation(q) ==
    [type |-> q.type, description |-> q.description, confidence |-> q.confidence]

RECURSIVE ObservationsAt(_, _)
ObservationsAt(ps, d) ==
    IF ps = <<>> THEN <<>>
    ELSE (IF ps[1].depth = d THEN <<Observation(ps[1])>> ELSE <<>>)
             \o ObservationsAt(Tail(ps), d)

NonDecreasingDepth(ps) ==
    \A i, j \in DOMAIN ps : i < j => ps[i].depth <= ps[j].depth

SameAtEveryDepth(ps, m) ==
    /\ \A i \in DOMAIN ps : ps[i].depth \in 0..(m - 1)
    /\ \A d \in 0..(m - 1) : ObservationsAt(ps, d) = ObservationsAt(ps, 0)

(* C21: analyze_commit_patterns(0) stops recursing only when the depth     *)
(* reaches max_depth, so it runs git log once for every depth              *)
(* 0 .. max_depth - 1; the depths are non-decreasing along its output, and *)
(* for a non-empty history the output has the same observations at every   *)
(* depth 0 .. max_depth - 1.                                               *)
C21_WalksFullDepth ==
    [][\A fail \in Failures :
          (returned'.op = "analyze_commit_patterns" /\ run_analyze_commit_patterns(fail))
             => /\ returned'.runs = max_depth
                /\ NonDecreasingDepth(returned'.value)
                /\ repo.log # <<>> => SameAtEveryDepth(returned'.value, max_depth)
      ]_vars

(* C21, amended: a level whose git log run fails, or whose output does not *)
(* parse, ends the recursion as well.  The call makes at most max_depth    *)
(* runs; it makes max_depth runs, with the same observations at every      *)
(* depth, when every run succeeds and its output parses.                   *)
C21_WalksFullDepthUnlessALevelFails ==
    [][\A fail \in Failures :
          (returned'.op = "analyze_commit_patterns" /\ run_analyze_commit_patterns(fail))
             => LET ps == returned'.value
                    parses == parse_commits(repo.log).ok
                IN  /\ returned'.runs <= max_depth
                    /\ NonDecreasingDepth(ps)
                    /\ (fail >= max_depth /\ parses)
                          => /\ returned'.runs = max_depth
                             /\ SameAtEveryDepth(ps, max_depth)
                    /\ (fail < max_depth /\ parses)
                          => /\ returned'.runs = fail + 1
                             /\ \A i \in DOMAIN ps : ps[i].depth < fail
                    /\ (~parses /\ max_depth > 0)
                          => returned'.runs = 1 /\ ps = <<>>
      ]_vars

(* Every level is walked: max_depth at its bound, as many runs, a          *)
(* non-empty history and an observation at the deepest level.              *)
C21_Witness ==
    /\ returned.op = "analyze_commit_patterns"
    /\ max_depth = MaxAnalyzerDepth
    /\ returned.runs = max_depth
    /\ repo.log # <<>>
    /\ \E i \in DOMAIN returned.value : returned.value[i].depth = max_depth - 1


----------------------------------------------------------------------------
(* The tokens of all commit messages of a history, lower-cased, in the     *)
(* order in which the history shows them.                                  *)
RECURSIVE Tokens(_)
Tokens(commits) ==
    IF commits = <<>> THEN <<>>
    ELSE words(lower(commits[1].message)) \o Tokens(Tail(commits))

Count(w, tokens) == Cardinality({i \in DOMAIN tokens : tokens[i] = w})

FirstSeen(w, tokens) ==
    CHOOSE i \in DOMAIN tokens :
        tokens[i] = w /\ \A j \in 1..(i - 1) : tokens[j] # w

LongTokens(tokens) == {tokens[i] : i \in {j \in DOMAIN tokens : Len(tokens[j]) > 3}}

(* v comes before w: more occurrences, or as many and seen first. *)
Before(v, w, tokens) ==
    \/ Count(v, tokens) > Count(w, tokens)
    \/ /\ Count(v, tokens) = Count(w, tokens)
       /\ FirstSeen(v, tokens) < FirstSeen(w, tokens)

(* The keyword list of a history: position i holds the long token that    *)
(* exactly i - 1 long tokens come before; at most 5 positions.             *)
Rank(w, tokens) ==
    Cardinality({v \in LongTokens(tokens) : Before(v, w, tokens)})

KeywordList(tokens) ==
    [ i \in 1..(IF Cardinality(LongTokens(tokens)) < 5
                THEN Cardinality(LongTokens(tokens)) ELSE 5) |->
         CHOOSE w \in LongTokens(tokens) : Rank(w, tokens) = i - 1 ]

KeywordObservations(ps, d) ==
    SelectSeq(ps, LAMBDA q : q.type = "message_patterns" /\ q.depth = d)

(* C22: the keyword observation of a depth level lists the at most 5       *)
(* lower-cased tokens longer than 3 characters with the most occurrences,  *)
(* in descending order of occurrences, equal counts in first-seen order;   *)
(* there is no keyword observation when no token is longer than 3          *)
(* characters.                                                             *)
C22_KeywordObservation ==
    [][\A fail \in Failures :
          (/\ returned'.op = "analyze_commit_patterns"
           /\ run_analyze_commit_patterns(fail)
           /\ parse_commits(repo.log).ok)
             => LET tokens == Tokens(parse_commits(repo.log).commits)
                IN  \A d \in 0..(max_depth - 1) :
                       d < fail =>
                          LET obs == KeywordObservations(returned'.value, d)
                          IN  IF LongTokens(tokens) = {}
                              THEN obs = <<>>
                              ELSE /\ Len(obs) = 1
                                   /\ obs[1].confidence = 8
                                   /\ obs[1].description =
                                         "Top keywords: "
                                             \o join(", ", KeywordList(tokens))
      ]_vars

(* A keyword observation that had to cut a sixth long token and to put a   *)
(* token seen later before one seen earlier.                               *)
C22_Witness ==
    /\ returned.op = "analyze_commit_patterns"
    /\ parse_commits(repo.log).ok
    /\ Cardinality(LongTokens(Tokens(parse_commits(repo.log).commits))) > 5
    /\ \E i \in DOMAIN returned.value :
          /\ returned.value[i].type = "message_patterns"
          /\ returned.value[i].description
                = "Top keywords: beta, zeta, alpha, gamma, delta"


----------------------------------------------------------------------------
(* The lines of a history output and the lines that are not dropped: those *)
(* with at least 5 fields between "|".                                     *)
HistoryLines(stdout) == split(strip(stdout), "\n")

KeptLines(stdout) ==
    SelectSeq(HistoryLines(stdout), LAMBDA l : Len(split(l, "|")) >= 5)

RECURSIVE Field(_, _)
Field(lines, k) ==
    IF lines = <<>> THEN <<>>
    ELSE <<Concat(split(lines[1], "|")[k])>> \o Field(Tail(lines), k)

(* C23: a line with fewer than 5 fields is dropped without error and every *)
(* other line yields exactly one commit record, in input order: the        *)
(* commit family does not fail, it sees one commit per kept line, with     *)
(* the hashes and authors of these lines.                                  *)
C23_EveryOtherLineYieldsARecord ==
    [][\A fail \in Failures :
          (/\ returned'.op = "analyze_commit_patterns"
           /\ run_analyze_commit_patterns(fail)
           /\ max_depth > 0 /\ fail > 0)
             => LET kept == KeptLines(repo.log)
                    parsed == parse_commits(repo.log)
                    found == ObservationsAt(returned'.value, 0)
                IN  /\ parsed.ok
                    /\ Len(parsed.commits) = Len(kept)
                    /\ \A i \in DOMAIN kept :
                          /\ parsed.commits[i].hash = Field(kept, 1)[i]
                          /\ parsed.commits[i].author = Field(kept, 2)[i]
                    /\ Len(kept) > 1 =>
                          \E i \in DOMAIN found :
                              found[i].description
                                 = "Repository has " \o ToString(Len(kept)) \o " commits"
                    /\ Len(kept) > 0 =>
                          \E i \in DOMAIN found : found[i].type = "author_diversity"
      ]_vars


----------------------------------------------------------------------------
(* What a call of op with arguments a may have changed between the         *)
(* documents old and new: everything else is as it was.                    *)
Frame(op, a, old, new) ==
    /\ new.version = old.version
    /\ new.currentState.state =
          (IF op = "update_state" THEN a.new_state ELSE old.currentState.state)
    /\ \A k \in DOMAIN old.currentState \ {"state", "lastEvaluation"} :
          new.currentState[k] = old.currentState[k]
    /\ DOMAIN new.currentState = DOMAIN old.currentState
    /\ op \notin {"add_state_event", "update_state"} =>
          /\ new.stateHistory = old.stateHistory
          /\ new.currentState.lastEvaluation = old.currentState.lastEvaluation
    /\ op # "detect_pattern" => new.patterns.emergent = old.patterns.emergent
    /\ op # "increase_recursive_depth" => Depth(new) = Depth(old)
    /\ new.patterns.recursive.maxDepth = old.patterns.recursive.maxDepth
    /\ new.patterns.recursive.detectedPatterns = old.patterns.recursive.detectedPatterns
    /\ DOMAIN new.dimensions = DOMAIN old.dimensions
    /\ \A d \in DOMAIN new.dimensions :
          IF op = "update_dimension" /\ d = a.dimension
          THEN {kv \in new.dimensions[d] : kv[1] # a.key}
                  = {kv \in old.dimensions[d] : kv[1] # a.key}
          ELSE new.dimensions[d] = old.dimensions[d]

(* C24: currentState.state changes only in an update_state call, where it  *)
(* becomes new_state; every call of a tracker holding a document leaves    *)
(* unchanged every field of the document that the method is not specified  *)
(* to write, and no call changes patterns.recursive.maxDepth.              *)
C24_StateChangesOnlyInUpdateState ==
    [][\A p \in Trackers, op \in Ops, rio \in ReadOutcomes,
          wio \in WriteOutcomes, r \in Results :
        \A a \in Args(op) :
            (state_data[p] # None /\ Call(p, op, a, rio, wio, r)) =>
                /\ state_data'[p] # None
                /\ Frame(op, a, Doc(p), Doc(p)')]_vars

(* C24, amended: this holds for update_state, add_state_event,             *)
(* detect_pattern, increase_recursive_depth, update_dimension and          *)
(* save_state, whether their save succeeds or not.  load_state replaces    *)
(* the document in memory by the file's document, or by the default        *)
(* document if the file is absent, whatever the state in memory was.       *)
C24_FrameExceptLoad ==
    [][\A p \in Trackers, op \in Ops, rio \in ReadOutcomes,
          wio \in WriteOutcomes, r \in Results :
        \A a \in Args(op) :
            (state_data[p] # None /\ Call(p, op, a, rio, wio, r)) =>
                IF op = "load_state"
                THEN r = "True" =>
                        /\ file.kind = "json" => state_data'[p] = file.text
                        /\ file.kind = "absent" =>
                              /\ state_data'[p] # None
                              /\ IsDefault(Doc(p)')
                ELSE /\ state_data'[p] # None
                     /\ Frame(op, a, Doc(p), Doc(p)')]_vars

(* The state was set by update_state and the calls after it, a detection   *)
(* and a raise of the depth, left it as it was.                            *)
C24_Witness ==
    \E p \in Trackers :
        /\ state_data[p] # None
        /\ Doc(p).currentState.state = "active"
        /\ Len(Doc(p).stateHistory) = 1
        /\ Doc(p).stateHistory[1].state = "active"
        /\ Len(Doc(p).patterns.emergent) = 1
        /\ Depth(Doc(p)) = 1


----------------------------------------------------------------------------
(* The persisted document equals the document in memory; the file holds    *)
(* what json.dump writes for the document in memory.                       *)
PersistedEquals(p) == file.kind = "json" /\ file.text = state_data[p]

InSync(p) == file = Json(json_dump(state_data[p]))

SavingOps == MutatingOps \cup {"save_state"}

(* C25: with a single tracker, after every call of a mutating method or of *)
(* save_state that returns success the persisted document equals the       *)
(* document in memory; the two come to differ only by the load of an       *)
(* absent file or by a call whose save failed.                             *)
C25_PersistedEqualsMemory ==
    [][\A p \in Trackers, op \in Ops, rio \in ReadOutcomes,
          wio \in WriteOutcomes, r \in {"True", "False"} :
        \A a \in Args(op) :
            Call(p, op, a, rio, wio, r) =>
                /\ (op \in SavingOps /\ r = "True") => PersistedEquals(p)'
                /\ ( /\ state_data'[p] # None
                     /\ ~PersistedEquals(p)'
                     /\ (state_data[p] = None \/ PersistedEquals(p)) )
                      => \/ file.kind = "absent"
                         \/ r = "False" /\ ~save_ok(state_data'[p], wio)]_vars

(* C25, amended: what is persisted is the JSON encoding of the document in *)
(* memory, which differs from it where a value is a tuple (written as an   *)
(* array).                                                                 *)
C25_PersistedIsEncodingOfMemory ==
    [][\A p \in Trackers, op \in Ops, rio \in ReadOutcomes,
          wio \in WriteOutcomes, r \in {"True", "False"} :
        \A a \in Args(op) :
            Call(p, op, a, rio, wio, r) =>
                /\ (op \in SavingOps /\ r = "True") => InSync(p)'
                /\ ( /\ state_data'[p] # None
                     /\ ~InSync(p)'
                     /\ (state_data[p] = None \/ InSync(p)) )
                      => \/ file.kind = "absent"
                         \/ r = "False" /\ ~save_ok(state_data'[p], wio)]_vars

(* A document with a history entry and a tuple value was saved: the file   *)
(* holds its encoding, which is not the document itself.                   *)
C25_Witness ==
    \E p \in Trackers :
        /\ state_data[p] # None
        /\ Len(Doc(p).stateHistory) = 1
        /\ <<"k", "tuple:(1,)">> \in Doc(p).dimensions["temporal"]
        /\ InSync(p)
        /\ ~PersistedEquals(p)


----------------------------------------------------------------------------
(* The recursiveDepth stamps of a document's patterns are non-decreasing   *)
(* in list order and none is above the document's depth.                   *)
StampsFollowDepth(doc) ==
    LET e == doc.patterns.emergent
    IN  /\ \A i, j \in DOMAIN e : i < j => e[i].recursiveDepth <= e[j].recursiveDepth
        /\ \A i \in DOMAIN e : e[i].recursiveDepth <= Depth(doc)

EveryDocumentStampsFollowDepth ==
    /\ \A p \in Trackers : state_data[p] # None => StampsFollowDepth(Doc(p))
    /\ (file.kind = "json" /\ file.text # None) => StampsFollowDepth(file.text[1])

(* C26: in every reachable state the recursiveDepth values of              *)
(* patterns.emergent are non-decreasing in list order and at most the      *)
(* current patterns.recursive.depth, and no operation decreases            *)
(* patterns.recursive.depth.                                               *)
C26_StampsFollowDepthNeverDecreased ==
    /\ []EveryDocumentStampsFollowDepth
    /\ [][\A p \in Trackers :
             (state_data[p] # None /\ state_data'[p] # None)
                => Depth(Doc(p)') >= Depth(Doc(p))]_vars

(* C26, amended: the same invariant; the mutating methods and save_state   *)
(* never decrease the depth, and load_state replaces the document by the   *)
(* persisted one, which can have a smaller depth (after a raise whose save *)
(* failed) but satisfies the invariant itself.                             *)
C26_StampsFollowDepthExceptLoad ==
    /\ []EveryDocumentStampsFollowDepth
    /\ [][\A p \in Trackers, op \in Ops, rio \in ReadOutcomes,
             wio \in WriteOutcomes, r \in Results :
           \A a \in Args(op) :
               (state_data[p] # None /\ Call(p, op, a, rio, wio, r)) =>
                   IF op = "load_state"
                   THEN (r = "True" /\ file.kind = "json") => state_data'[p] = file.text
                   ELSE /\ state_data'[p] # None
                        /\ Depth(Doc(p)') >= Depth(Doc(p))]_vars

(* A pattern detected at depth 0 and one detected after the depth was      *)
(* raised.                                                                 *)
C26_Witness ==
    \E p \in Trackers :
        /\ state_data[p] # None
        /\ Len(Doc(p).patterns.emergent) = 2
        /\ Doc(p).patterns.emergent[1].recursiveDepth = 0
        /\ Doc(p).patterns.emergent[2].recursiveDepth = 1
        /\ Depth(Doc(p)) >= 1
====
